---- MODULE Spec2Model ----
(***************************************************************************)
(* Model of src/src/utilities/StringUtility.ts (StringUtility): the        *)
(* normalizer toSentence, the case renderers built on it and the           *)
(* dispatcher toCase.                                                      *)
(*                                                                         *)
(* A string is a sequence of one-character strings.  Every regular         *)
(* expression rewrite of the source is modelled as the left-to-right scan  *)
(* String.prototype.replace performs with a global pattern.                *)
(***************************************************************************)
EXTENDS Naturals, Sequences, FiniteSets, TLC

VARIABLES str, separator, caseType, result, called

vars == <<str, separator, caseType, result, called>>

(***************************************************************************)
(* Bounds of the model.                                                    *)
(***************************************************************************)
MaxLen == 3

\* The longest second input of a property that compares two inputs.
MaxOtherLen == 2

\* The characters input strings are drawn from: lower-case letters, an
\* upper-case letter, digits, the space and two delimiters.
Alphabet == {"a", "b", "A", "1", "2", " ", "_", "."}

RECURSIVE StringsOfLen(_)
StringsOfLen(n) ==
    IF n = 0 THEN {<<>>}
    ELSE {Append(s, c) : s \in StringsOfLen(n - 1), c \in Alphabet}

Strings == UNION {StringsOfLen(n) : n \in 0..MaxLen}

(***************************************************************************)
(* Character classes of the regular expressions.                           *)
(***************************************************************************)
LowerAlphabet ==
    <<"a", "b", "c", "d", "e", "f", "g", "h", "i", "j", "k", "l", "m",
      "n", "o", "p", "q", "r", "s", "t", "u", "v", "w", "x", "y", "z">>

UpperAlphabet ==
    <<"A", "B", "C", "D", "E", "F", "G", "H", "I", "J", "K", "L", "M",
      "N", "O", "P", "Q", "R", "S", "T", "U", "V", "W", "X", "Y", "Z">>

Range(f) == {f[i] : i \in DOMAIN f}

LowerLetters == Range(LowerAlphabet)
UpperLetters == Range(UpperAlphabet)
Digits == {"0", "1", "2", "3", "4", "5", "6", "7", "8", "9"}
WhiteSpace == {" ", "\t", "\n", "\r", "\f"}

\* [a-z], [A-Z], \d, \s, \w and [a-zA-Z]
IsLower(c) == c \in LowerLetters
IsUpper(c) == c \in UpperLetters
IsDigit(c) == c \in Digits
IsSpace(c) == c \in WhiteSpace
IsWord(c) == IsLower(c) \/ IsUpper(c) \/ IsDigit(c) \/ c = "_"
IsLetter(c) == IsLower(c) \/ IsUpper(c)

\* String.prototype.toUpperCase / toLowerCase on one character.
UpperOf == [c \in LowerLetters |-> UpperAlphabet[CHOOSE i \in 1..26 : LowerAlphabet[i] = c]]
LowerOf == [c \in UpperLetters |-> LowerAlphabet[CHOOSE i \in 1..26 : UpperAlphabet[i] = c]]

UpperChar(c) == IF IsLower(c) THEN UpperOf[c] ELSE c
LowerChar(c) == IF IsUpper(c) THEN LowerOf[c] ELSE c

toUpperCase(s) == [i \in 1..Len(s) |-> UpperChar(s[i])]
toLowerCase(s) == [i \in 1..Len(s) |-> LowerChar(s[i])]

\* s.substr(from) with a 0-based index turned 1-based: s[from..Len(s)].
Substr(s, from) == SubSeq(s, from, Len(s))

(***************************************************************************)
(* toSentence, step by step (lines 54-72).                                 *)
(***************************************************************************)
\* Mutant of DigitRunEnd: the pattern /(\d)/g, one digit at a time.
DigitRunEnd_OneDigit(s, i) == i

\* End of the maximal run of digits that starts at i.
RECURSIVE DigitRunEnd(_, _)
DigitRunEnd(s, i) ==
    IF i < Len(s) /\ IsDigit(s[i + 1]) THEN DigitRunEnd(s, i + 1) ELSE i

\* .replace(/(\d+)/g, ' $1 ')
RECURSIVE SpaceDigitsFrom(_, _)
SpaceDigitsFrom(s, i) ==
    IF i > Len(s) THEN <<>>
    ELSE IF IsDigit(s[i])
         THEN LET e == DigitRunEnd(s, i)
              IN  <<" ">> \o SubSeq(s, i, e) \o <<" ">> \o SpaceDigitsFrom(s, e + 1)
         ELSE <<s[i]>> \o SpaceDigitsFrom(s, i + 1)

SpaceDigits(s) == SpaceDigitsFrom(s, 1)

\* Mutant of SpaceBeforeUpperFrom: the pattern /([a-zA-Z](?=[A-Z]))/g.
RECURSIVE SpaceBeforeUpperFrom_AnyLetter(_, _)
SpaceBeforeUpperFrom_AnyLetter(s, i) ==
    IF i > Len(s) THEN <<>>
    ELSE IF IsLetter(s[i]) /\ i < Len(s) /\ IsUpper(s[i + 1])
         THEN <<s[i], " ">> \o SpaceBeforeUpperFrom_AnyLetter(s, i + 1)
         ELSE <<s[i]>> \o SpaceBeforeUpperFrom_AnyLetter(s, i + 1)

\* .replace(/([a-z](?=[A-Z]))/g, '$1 ')
RECURSIVE SpaceBeforeUpperFrom(_, _)
SpaceBeforeUpperFrom(s, i) ==
    IF i > Len(s) THEN <<>>
    ELSE IF IsLower(s[i]) /\ i < Len(s) /\ IsUpper(s[i + 1])
         THEN <<s[i], " ">> \o SpaceBeforeUpperFrom(s, i + 1)
         ELSE <<s[i]>> \o SpaceBeforeUpperFrom(s, i + 1)

SpaceBeforeUpper(s) == SpaceBeforeUpperFrom(s, 1)

\* Mutant of RemoveNonWord: the pattern /[^\w ]/g, which keeps the underscore.
RemoveNonWord_KeepsUnderscore(s) ==
    [i \in 1..Len(s) |-> IF IsWord(s[i]) \/ s[i] = " " THEN s[i] ELSE " "]

\* .replace(/[^a-zA-Z0-9 ]/g, ' ')
RemoveNonWord(s) ==
    [i \in 1..Len(s) |->
        IF IsLetter(s[i]) \/ IsDigit(s[i]) \/ s[i] = " " THEN s[i] ELSE " "]

\* End of the maximal run of white space that starts at i.
RECURSIVE SpaceRunEnd(_, _)
SpaceRunEnd(s, i) ==
    IF i < Len(s) /\ IsSpace(s[i + 1]) THEN SpaceRunEnd(s, i + 1) ELSE i

\* .replace(/\s+/g, ' ')
RECURSIVE CollapseSpacesFrom(_, _)
CollapseSpacesFrom(s, i) ==
    IF i > Len(s) THEN <<>>
    ELSE IF IsSpace(s[i])
         THEN <<" ">> \o CollapseSpacesFrom(s, SpaceRunEnd(s, i) + 1)
         ELSE <<s[i]>> \o CollapseSpacesFrom(s, i + 1)

CollapseSpaces(s) == CollapseSpacesFrom(s, 1)

\* Mutant of TrimSpace: the pattern /^ /g, which leaves the space at the end.
TrimSpace_LeadingOnly(s) ==
    IF Len(s) >= 1 /\ s[1] = " " THEN Substr(s, 2) ELSE s

\* .replace(/^ | $/g, ''): one space at the start and one space at the end;
\* the two alternatives never match the same character.
TrimSpace(s) ==
    LET lead == Len(s) >= 1 /\ s[1] = " "
        t == IF lead THEN Substr(s, 2) ELSE s
        trail == Len(t) >= 1 /\ t[Len(t)] = " "
    IN  IF trail THEN SubSeq(t, 1, Len(t) - 1) ELSE t

\* The replacement string of .replace(regexp, separator) is a template:
\* $$ is a dollar sign, $& the match and $' the text after the match; a $
\* followed by a digit or a letter is kept as it is (the pattern /\s+/ has no
\* capture group).  The pattern for the text before the match is written
\* with a backquote, a character no string of this module can hold: no
\* separator drawn here uses it.
RECURSIVE ExpandFrom(_, _, _, _)
ExpandFrom(tpl, i, matched, after) ==
    IF i > Len(tpl) THEN <<>>
    ELSE IF tpl[i] = "$" /\ i < Len(tpl) /\ tpl[i + 1] \in {"$", "&", "'"}
         THEN (CASE tpl[i + 1] = "$" -> <<"$">>
                 [] tpl[i + 1] = "&" -> matched
                 [] tpl[i + 1] = "'" -> after)
              \o ExpandFrom(tpl, i + 2, matched, after)
         ELSE <<tpl[i]>> \o ExpandFrom(tpl, i + 1, matched, after)

\* .replace(/\s+/g, separator)
RECURSIVE ReplaceSpacesFrom(_, _, _)
ReplaceSpacesFrom(s, i, sep) ==
    IF i > Len(s) THEN <<>>
    ELSE IF IsSpace(s[i])
         THEN LET e == SpaceRunEnd(s, i)
              IN  ExpandFrom(sep, 1, SubSeq(s, i, e), Substr(s, e + 1))
                  \o ReplaceSpacesFrom(s, e + 1, sep)
         ELSE <<s[i]>> \o ReplaceSpacesFrom(s, i + 1, sep)

ReplaceSpaces(s, sep) == ReplaceSpacesFrom(s, 1, sep)

\* Mutant of toSentence: the trim is done before the runs of spaces are
\* collapsed.
toSentence_TrimBeforeCollapse(s, sep) ==
    ReplaceSpaces(
        toLowerCase(CollapseSpaces(TrimSpace(RemoveNonWord(SpaceBeforeUpper(SpaceDigits(s)))))),
        sep)

\* Mutant of toSentence: the trim is left out.
toSentence_NoTrim(s, sep) ==
    ReplaceSpaces(
        toLowerCase(CollapseSpaces(RemoveNonWord(SpaceBeforeUpper(SpaceDigits(s))))),
        sep)

\* toSentence(str, separator)
toSentence(s, sep) ==
    ReplaceSpaces(
        toLowerCase(TrimSpace(CollapseSpaces(RemoveNonWord(SpaceBeforeUpper(SpaceDigits(s)))))),
        sep)

\* The default value of the separator parameter (line 54).
DefaultSeparator == <<" ">>

(***************************************************************************)
(* The renderers (lines 86-168).                                           *)
(***************************************************************************)
\* Mutant of UpperAfterSpaceFrom: the pattern / ([a-z])/g.
RECURSIVE UpperAfterSpaceFrom_LettersOnly(_, _)
UpperAfterSpaceFrom_LettersOnly(s, i) ==
    IF i > Len(s) THEN <<>>
    ELSE IF s[i] = " " /\ i < Len(s) /\ IsLower(s[i + 1])
         THEN <<UpperChar(s[i + 1])>> \o UpperAfterSpaceFrom_LettersOnly(s, i + 2)
         ELSE <<s[i]>> \o UpperAfterSpaceFrom_LettersOnly(s, i + 1)

\* .replace(/ (\w)/g, (_, $1) => $1.toUpperCase())
RECURSIVE UpperAfterSpaceFrom(_, _)
UpperAfterSpaceFrom(s, i) ==
    IF i > Len(s) THEN <<>>
    ELSE IF s[i] = " " /\ i < Len(s) /\ IsWord(s[i + 1])
         THEN <<UpperChar(s[i + 1])>> \o UpperAfterSpaceFrom(s, i + 2)
         ELSE <<s[i]>> \o UpperAfterSpaceFrom(s, i + 1)

toCamelCase(s) == UpperAfterSpaceFrom(toSentence(s, DefaultSeparator), 1)

\* .replace(/^[a-zA-Z]/, a => a.toUpperCase())
UpperFirstLetter(s) ==
    IF Len(s) >= 1 /\ IsLetter(s[1]) THEN <<UpperChar(s[1])>> \o Substr(s, 2) ELSE s

\* Mutant of toPascalCase: /^[a-zA-Z]/ is tested on the input, not on the
\* camel-case string.
toPascalCase_TestsInput(s) ==
    IF Len(s) >= 1 /\ IsLetter(s[1])
    THEN UpperFirstLetter(toCamelCase(s)) ELSE toCamelCase(s)

toPascalCase(s) == UpperFirstLetter(toCamelCase(s))

\* Mutant of toConstantCase: the upper-casing is done before toSentence.
toConstantCase_UpperFirst(s) == toSentence(toUpperCase(s), <<"_">>)

toConstantCase(s) == toUpperCase(toSentence(s, <<"_">>))

\* txt.charAt(0).toUpperCase() + txt.substr(1).toLowerCase()
Capitalize(s) ==
    IF Len(s) = 0 THEN <<>> ELSE <<UpperChar(s[1])>> \o toLowerCase(Substr(s, 2))

\* End of the match of \S* that starts after position i.
RECURSIVE NonSpaceRunEnd(_, _)
NonSpaceRunEnd(s, i) ==
    IF i < Len(s) /\ ~IsSpace(s[i + 1]) THEN NonSpaceRunEnd(s, i + 1) ELSE i

\* .replace(/\w\S*/g, txt => ...)
RECURSIVE CapitalizeWordsFrom(_, _)
CapitalizeWordsFrom(s, i) ==
    IF i > Len(s) THEN <<>>
    ELSE IF IsWord(s[i])
         THEN LET e == NonSpaceRunEnd(s, i)
              IN  Capitalize(SubSeq(s, i, e)) \o CapitalizeWordsFrom(s, e + 1)
         ELSE <<s[i]>> \o CapitalizeWordsFrom(s, i + 1)

toTitleCase(s) == CapitalizeWordsFrom(toSentence(s, DefaultSeparator), 1)

toSentenceCase(s) == Capitalize(toSentence(s, DefaultSeparator))

(***************************************************************************)
(* The dispatcher (lines 4-30).                                            *)
(***************************************************************************)
\* The members of CaseConverterEnum.
CaseConverterEnum ==
    {"CamelCase", "ConstantCase", "DotCase", "KebabCase", "LowerCase", "PascalCase",
     "PathCase", "SentenceCase", "SnakeCase", "TitleCase", "None"}

\* A value toCase can be handed that is no member of the enumeration.
OutsideEnum == "Unknown"

CaseTypes == CaseConverterEnum \cup {OutsideEnum}

\* Mutant of toCase: the default branch normalizes the input.
toCase_DefaultNormalizes(s, type) ==
    CASE type = "CamelCase" -> toCamelCase(s)
      [] type = "ConstantCase" -> toConstantCase(s)
      [] type = "DotCase" -> toSentence(s, <<".">>)
      [] type = "KebabCase" -> toSentence(s, <<"-">>)
      [] type = "LowerCase" -> toSentence(s, <<>>)
      [] type = "PascalCase" -> toPascalCase(s)
      [] type = "PathCase" -> toSentence(s, <<"/">>)
      [] type = "SentenceCase" -> toSentenceCase(s)
      [] type = "SnakeCase" -> toSentence(s, <<"_">>)
      [] type = "TitleCase" -> toTitleCase(s)
      [] OTHER -> toSentence(s, DefaultSeparator)

toCase(s, type) ==
    CASE type = "CamelCase" -> toCamelCase(s)
      [] type = "ConstantCase" -> toConstantCase(s)
      [] type = "DotCase" -> toSentence(s, <<".">>)
      [] type = "KebabCase" -> toSentence(s, <<"-">>)
      [] type = "LowerCase" -> toSentence(s, <<>>)
      [] type = "PascalCase" -> toPascalCase(s)
      [] type = "PathCase" -> toSentence(s, <<"/">>)
      [] type = "SentenceCase" -> toSentenceCase(s)
      [] type = "SnakeCase" -> toSentence(s, <<"_">>)
      [] type = "TitleCase" -> toTitleCase(s)
      [] OTHER -> s

(***************************************************************************)
(* The state machine: a caller holds an input string and calls the two     *)
(* public functions on it; every call is independent of the ones before.   *)
(***************************************************************************)
\* The separators a caller passes: the default, the ones toCase uses, and
\* others with letters, digits, several characters or a replacement pattern.
Separators ==
    {<<" ">>, <<>>, <<".">>, <<"-">>, <<"/">>, <<"_">>,
     <<"x">>, <<"X">>, <<"1">>, <<",", " ">>, <<"$", "$">>, <<"$", "&">>, <<"$", "'">>}

\* What separator and caseType hold while the call made has no such argument.
NoSeparator == <<"?">>
NoCaseType == "?"

Init ==
    /\ str \in Strings
    /\ separator = NoSeparator
    /\ caseType = NoCaseType
    /\ result = <<>>
    /\ called = "nothing"

\* result = StringUtility.toSentence(str, sep)
CallToSentence ==
    \E sep \in Separators :
        /\ called = "nothing"
        /\ separator' = sep
        /\ result' = toSentence(str, sep)
        /\ called' = "toSentence"
        /\ UNCHANGED <<str, caseType>>

\* result = StringUtility.toCase(str, type)
CallToCase ==
    \E type \in CaseTypes :
        /\ called = "nothing"
        /\ caseType' = type
        /\ result' = toCase(str, type)
        /\ called' = "toCase"
        /\ UNCHANGED <<str, separator>>

Next == CallToSentence \/ CallToCase

Spec == Init /\ [][Next]_vars

TypeOK ==
    /\ str \in Strings
    /\ called \in {"nothing", "toSentence", "toCase"}
    /\ caseType \in CaseTypes \cup {NoCaseType}
    /\ separator \in Separators \cup {NoSeparator}

(***************************************************************************)
(* Vocabulary of the properties.                                           *)
(***************************************************************************)
\* A character of a normal form: a lower-case letter or a digit.
IsLowerOrDigit(c) == c \in LowerLetters \cup Digits

\* A punctuation character: no letter, no digit, no white space.
IsPunctuation(c) == c \notin LowerLetters \cup UpperLetters \cup Digits \cup WhiteSpace

\* The tokens of s: its maximal runs of characters other than the space.
RECURSIVE TokenEnd(_, _)
TokenEnd(s, i) == IF i < Len(s) /\ s[i + 1] # " " THEN TokenEnd(s, i + 1) ELSE i

RECURSIVE TokensFrom(_, _)
TokensFrom(s, i) ==
    IF i > Len(s) THEN <<>>
    ELSE IF s[i] = " " THEN TokensFrom(s, i + 1)
         ELSE <<SubSeq(s, i, TokenEnd(s, i))>> \o TokensFrom(s, TokenEnd(s, i) + 1)

Tokens(s) == TokensFrom(s, 1)

\* The tokens joined with sep, taken literally, between them.
RECURSIVE Join(_, _)
Join(toks, sep) ==
    IF Len(toks) = 0 THEN <<>>
    ELSE IF Len(toks) = 1 THEN toks[1]
         ELSE toks[1] \o sep \o Join(Tail(toks), sep)

\* The maximal runs of digits of s, in order.
RECURSIVE RunOfDigitsEnd(_, _)
RunOfDigitsEnd(s, i) ==
    IF i < Len(s) /\ s[i + 1] \in Digits THEN RunOfDigitsEnd(s, i + 1) ELSE i

RECURSIVE DigitRunsFrom(_, _)
DigitRunsFrom(s, i) ==
    IF i > Len(s) THEN <<>>
    ELSE IF s[i] \in Digits
         THEN <<SubSeq(s, i, RunOfDigitsEnd(s, i))>> \o DigitRunsFrom(s, RunOfDigitsEnd(s, i) + 1)
         ELSE DigitRunsFrom(s, i + 1)

DigitRuns(s) == DigitRunsFrom(s, 1)

AllDigits(t) == \A i \in DOMAIN t : t[i] \in Digits
AllLower(t) == \A i \in DOMAIN t : t[i] \in LowerLetters

\* The members of toks that satisfy AllDigits, in order.
RECURSIVE DigitTokens(_)
DigitTokens(toks) ==
    IF Len(toks) = 0 THEN <<>>
    ELSE IF AllDigits(toks[1]) THEN <<toks[1]>> \o DigitTokens(Tail(toks))
         ELSE DigitTokens(Tail(toks))

\* s without the characters at its start and at its end that satisfy the
\* class: digits or punctuation (withDigits), or punctuation alone.
Strippable(c, withDigits) == IsPunctuation(c) \/ (withDigits /\ c \in Digits)

RECURSIVE StripEnds(_, _)
StripEnds(s, withDigits) ==
    IF Len(s) = 0 THEN s
    ELSE IF Strippable(s[1], withDigits) THEN StripEnds(Tail(s), withDigits)
    ELSE IF Strippable(s[Len(s)], withDigits)
         THEN StripEnds(SubSeq(s, 1, Len(s) - 1), withDigits)
         ELSE s

\* The first (last) maximal run of digits of s when s starts (ends) with one.
LeadingDigits(s) ==
    IF Len(s) >= 1 /\ s[1] \in Digits THEN DigitRuns(s)[1] ELSE <<>>

TrailingDigits(s) ==
    IF Len(s) >= 1 /\ s[Len(s)] \in Digits THEN DigitRuns(s)[Len(DigitRuns(s))] ELSE <<>>

IsPrefix(p, s) == Len(p) <= Len(s) /\ SubSeq(s, 1, Len(p)) = p
IsSuffix(p, s) == Len(p) <= Len(s) /\ SubSeq(s, Len(s) - Len(p) + 1, Len(s)) = p

\* A separator free of ASCII letters, ASCII digits and the dollar sign.
PlainSeparator(sep) ==
    \A i \in DOMAIN sep : sep[i] \notin LowerLetters \cup UpperLetters \cup Digits \cup {"$"}

HasLetterOrDigit(s) ==
    \E i \in DOMAIN s : s[i] \in LowerLetters \cup UpperLetters \cup Digits

(***************************************************************************)
(* C1.  Idempotence of toSentence.                                         *)
(***************************************************************************)
\* C1 as stated: for every input and every separator, normalizing the
\* output of toSentence again with the same separator gives it back.
C1_IdempotentForEverySeparator ==
    called = "toSentence" => toSentence(result, separator) = result

\* C1 amended: toSentence is idempotent for every separator that holds no
\* ASCII letter, no ASCII digit and no dollar sign (the default space, the
\* separators '.', '-', '', '/', '_' of the case types among them).
C1_IdempotentForPlainSeparators ==
    (called = "toSentence" /\ PlainSeparator(separator))
        => toSentence(result, separator) = result

C1_Witness ==
    /\ called = "toSentence"
    /\ separator = <<".">>
    /\ str = <<"a", "A", "1">>
    /\ result = <<"a", ".", "a", ".", "1">>

(***************************************************************************)
(* C2.  toCase with None, or with a value outside the enumeration.         *)
(***************************************************************************)
\* C2: toCase returns the input unmodified, character for character, when
\* caseType is None and when it is a value outside CaseConverterEnum.
C2_NoneIsIdentity ==
    (called = "toCase" /\ caseType \in {"None", OutsideEnum}) => result = str

C2_Witness ==
    /\ called = "toCase"
    /\ caseType = "None"
    /\ str = <<" ", "A", "_">>
    /\ result = <<" ", "A", "_">>
    /\ toSentence(str, DefaultSeparator) # str

(***************************************************************************)
(* C3.  The shape of the output of toSentence with the default separator.  *)
(***************************************************************************)
\* C3: with the default separator the output of toSentence holds only
\* lower-case ASCII letters, ASCII digits and spaces (so no upper-case letter
\* and no delimiter of the input), no two adjacent spaces, and no space at
\* its start or end.
C3_NormalForm ==
    (called = "toSentence" /\ separator = DefaultSeparator) =>
        /\ \A i \in DOMAIN result : IsLowerOrDigit(result[i]) \/ result[i] = " "
        /\ \A i \in 1..(Len(result) - 1) : ~(result[i] = " " /\ result[i + 1] = " ")
        /\ result # <<>> => (result[1] # " " /\ result[Len(result)] # " ")

C3_Witness ==
    /\ called = "toSentence"
    /\ separator = DefaultSeparator
    /\ str = <<"_", "a", "A">>
    /\ result = <<"a", " ", "a">>

(***************************************************************************)
(* C4.  Separator substitution law.                                        *)
(***************************************************************************)
\* The separator of a case type that is defined by one.
SeparatorOf(type) ==
    CASE type = "DotCase" -> <<".">>
      [] type = "KebabCase" -> <<"-">>
      [] type = "PathCase" -> <<"/">>
      [] type = "SnakeCase" -> <<"_">>
      [] type = "ConstantCase" -> <<"_">>
      [] type = "LowerCase" -> <<>>

SeparatorTypes ==
    {"DotCase", "KebabCase", "PathCase", "SnakeCase", "ConstantCase", "LowerCase"}

\* s with each space replaced by sep, taken literally.
RECURSIVE Substitute(_, _)
Substitute(s, sep) ==
    IF Len(s) = 0 THEN <<>>
    ELSE (IF s[1] = " " THEN sep ELSE <<s[1]>>) \o Substitute(Tail(s), sep)

\* C4: for a case type defined by a separator, toCase(x, type) is
\* toSentence(x) with each space replaced by the separator of the type,
\* upper-cased as a whole for ConstantCase; toCase(x, ConstantCase) is the
\* upper-cased toCase(x, SnakeCase).
C4_SeparatorSubstitution ==
    (called = "toCase" /\ caseType \in SeparatorTypes) =>
        LET substituted ==
                Substitute(toSentence(str, DefaultSeparator), SeparatorOf(caseType))
        IN  IF caseType = "ConstantCase"
            THEN /\ result = [i \in DOMAIN substituted |-> UpperChar(substituted[i])]
                 /\ LET snake == toCase(str, "SnakeCase")
                    IN  result = [i \in DOMAIN snake |-> UpperChar(snake[i])]
            ELSE result = substituted

C4_Witness ==
    /\ called = "toCase"
    /\ caseType = "ConstantCase"
    /\ str = <<"a", "A", "1">>
    /\ result = <<"A", "_", "A", "_", "1">>

(***************************************************************************)
(* C5.  Digits and punctuation at the start and at the end of the input.   *)
(***************************************************************************)
\* C5 as stated: digits and punctuation at the start or at the end of the
\* input are trimmed away by toSentence: the output is the one of the input
\* without them, and it neither begins nor ends with the separator.
C5_DigitsAndPunctuationTrimmed ==
    called = "toSentence" =>
        /\ result = toSentence(StripEnds(str, TRUE), separator)
        /\ result # <<>> =>
               (IsLowerOrDigit(result[1]) /\ IsLowerOrDigit(result[Len(result)]))

\* C5 amended: punctuation at the start or at the end of the input is trimmed
\* away by toSentence and leaves no empty token (a non-empty output begins
\* and ends with a character of a token, never with the separator), while a
\* run of digits at the start or at the end of the input is kept: it is the
\* first, respectively the last, token of the output.
C5_PunctuationTrimmedDigitsKept ==
    called = "toSentence" =>
        /\ result = toSentence(StripEnds(str, FALSE), separator)
        /\ result # <<>> =>
               (IsLowerOrDigit(result[1]) /\ IsLowerOrDigit(result[Len(result)]))
        /\ IsPrefix(LeadingDigits(str), result)
        /\ IsSuffix(TrailingDigits(str), result)

C5_Witness ==
    /\ called = "toSentence"
    /\ separator = <<"-">>
    /\ str = <<"1", "a", ".">>
    /\ result = <<"1", "-", "a">>

(***************************************************************************)
(* C6.  Digit-run preservation.                                            *)
(***************************************************************************)
\* C6: each maximal run of digits of the input is exactly one token of
\* toSentence(x), unchanged and in the original order; the tokens are
\* separated by single spaces, and no token mixes digits with letters.
C6_DigitRunsPreserved ==
    (called = "toSentence" /\ separator = DefaultSeparator) =>
        LET toks == Tokens(result)
        IN  /\ DigitTokens(toks) = DigitRuns(str)
            /\ \A k \in DOMAIN toks : AllDigits(toks[k]) \/ AllLower(toks[k])
            /\ result = Join(toks, <<" ">>)

C6_Witness ==
    /\ called = "toSentence"
    /\ separator = DefaultSeparator
    /\ str = <<"a", "1", "2">>
    /\ result = <<"a", " ", "1", "2">>

(***************************************************************************)
(* C7.  Inputs without a letter or a digit.                                *)
(***************************************************************************)
\* C7: for every separator, toSentence of the empty string, and of every
\* input that holds no ASCII letter and no ASCII digit, is the empty string.
C7_EmptyOutput ==
    (called = "toSentence" /\ ~HasLetterOrDigit(str)) => result = <<>>

C7_Witness ==
    /\ called = "toSentence"
    /\ separator = <<"x">>
    /\ str = <<"_", " ", ".">>
    /\ result = <<>>

(***************************************************************************)
(* C8.  CamelCase and PascalCase.                                          *)
(***************************************************************************)
\* A token with its first character upper-cased.
UpperFirst(t) == IF Len(t) = 0 THEN t ELSE <<UpperChar(t[1])>> \o Tail(t)

\* The tokens concatenated, each with its first character upper-cased.
RECURSIVE ConcatUpperFirst(_)
ConcatUpperFirst(toks) ==
    IF Len(toks) = 0 THEN <<>> ELSE UpperFirst(toks[1]) \o ConcatUpperFirst(Tail(toks))

\* C8: toCase(x, CamelCase) is the concatenation of the tokens of
\* toSentence(x), the first token as it is and every later token with its
\* first character upper-cased, with no space left; toCase(x, PascalCase) is
\* that string with its first character upper-cased when it is a letter.
C8_CamelAndPascal ==
    (called = "toCase" /\ caseType \in {"CamelCase", "PascalCase"}) =>
        LET toks == Tokens(toSentence(str, DefaultSeparator))
            camel == IF Len(toks) = 0 THEN <<>>
                     ELSE toks[1] \o ConcatUpperFirst(Tail(toks))
        IN  /\ \A i \in DOMAIN result : result[i] # " "
            /\ caseType = "CamelCase" => result = camel
            /\ caseType = "PascalCase" =>
                   result = IF camel # <<>> /\ IsLetter(camel[1])
                            THEN UpperFirst(camel) ELSE camel

C8_Witness ==
    /\ called = "toCase"
    /\ caseType = "PascalCase"
    /\ str = <<"a", "_", "b">>
    /\ result = <<"A", "B">>
    /\ toCase(str, "CamelCase") = <<"a", "B">>

(***************************************************************************)
(* C9.  The tokens are recoverable from a delimiter or space rendering.    *)
(***************************************************************************)
RecoverableTypes ==
    {"DotCase", "KebabCase", "PathCase", "SnakeCase", "ConstantCase",
     "SentenceCase", "TitleCase"}

\* C9: for every case type T among DotCase, KebabCase, PathCase, SnakeCase,
\* ConstantCase, SentenceCase and TitleCase, toSentence(toCase(x, T)) is
\* toSentence(x), and toCase(toCase(x, T), U) is toCase(x, U) for every case
\* type U other than None.
C9_TokensRecoverable ==
    (called = "toCase" /\ caseType \in RecoverableTypes) =>
        /\ toSentence(result, DefaultSeparator) = toSentence(str, DefaultSeparator)
        /\ \A U \in CaseConverterEnum \ {"None"} : toCase(result, U) = toCase(str, U)

C9_Witness ==
    /\ called = "toCase"
    /\ caseType = "TitleCase"
    /\ str = <<"a", "A", "1">>
    /\ result = <<"A", " ", "A", " ", "1">>
    /\ toCase(result, "CamelCase") = <<"a", "A", "1">>

(***************************************************************************)
(* C10.  A renderer reads its input through the normal form alone.         *)
(***************************************************************************)
\* The second input is drawn from the strings of at most MaxOtherLen
\* characters; NormalOf is the normal form of each.
Others == UNION {StringsOfLen(n) : n \in 0..MaxOtherLen}

NormalOf == [y \in Others |-> toSentence(y, DefaultSeparator)]

\* C10: for every case type T other than None, two inputs with the same
\* toSentence have the same toCase(_, T); toCase(toSentence(x), T) is
\* toCase(x, T).
C10_DependsOnNormalFormOnly ==
    (called = "toCase" /\ caseType \in CaseConverterEnum \ {"None"}) =>
        /\ toCase(toSentence(str, DefaultSeparator), caseType) = result
        /\ LET n == toSentence(str, DefaultSeparator)
           IN  \A y \in Others : NormalOf[y] = n => toCase(y, caseType) = result

C10_Witness ==
    /\ called = "toCase"
    /\ caseType = "SentenceCase"
    /\ str = <<"a", "A", "_">>
    /\ result = <<"A", " ", "a">>
    /\ <<"a", "A">> \in Others
    /\ NormalOf[<<"a", "A">>] = toSentence(str, DefaultSeparator)

====
